---- MODULE Spec2Model ----
(***************************************************************************)
(* Staging-to-account reconciliation of lukisan.ink:                       *)
(*   - the guest image store (IndexedDB, guestImageStorage)                *)
(*   - the quota gate (checkUserCredits / deductUserCredits)               *)
(*   - the transfer orchestrator (transferTempImagesToUser)                *)
(*   - the login detector of GuestLogoGenerator (Router.tsx)               *)
(* Time is counted in hours.                                               *)
(***************************************************************************)
EXTENDS Integers, Sequences, FiniteSets, TLC

\* ---------------------------------------------------------------- bounds
MaxArtifacts == 2      \* staging operations (ids handed out)
MaxRuns == 2           \* timer callbacks (runs) ever started, all tabs
MaxCredits == 2        \* largest initial credits_remaining
BatchSize == 3         \* images a guest staged before the login of SpecBatch
MaxMs == 1             \* milliseconds the clock of the storage calls advances
MaxCalls == 2          \* storage calls ever started

\* ------------------------------------------------------ program constants
TTL == 2               \* 2 * 60 * 60 * 1000 ms
DailyCap == 3          \* Math.max(0, 3 - dailyUsed)
HoursPerDay == 24      \* toISOString().split('T')[0] : the UTC date part
SESSION_DURATION == 24 \* 24 * 60 * 60 * 1000 ms

\* the clock runs until an image staged at the start has expired
MaxTime == TTL + 1

None == "none"
Accounts == {"u1"}
RunIds == 1..MaxRuns
StartTime == 2 * HoursPerDay

VARIABLES
  now,                    \* Date.now()
  store,                  \* IndexedDB: set of GuestImageData
  nextId,                 \* ids handed out so far + 1
  users,                  \* table users: account -> row
  records,                \* table logo_generations: artifact id -> rows inserted
  user,                   \* useAuth().user as rendered
  prevUserRef, transferAttemptedRef, transferInProgressRef,
  isTransferring,
  transferTimer,          \* pending setTimeout: None or the captured user.id
  runs,                   \* timer callbacks: run id -> activation record
  started,                \* timer callbacks started so far
  guestSession,           \* localStorage item 'guest_session'
  replaced,               \* the value the last setItem('guest_session') replaced
  authUser,               \* supabase.auth: the user of the session, or None
  objects,                \* storage.objects of bucket generated-images
  rows,                   \* logo_generations rows the storage calls inserted
  ms,                     \* Date.now() as the storage calls read it
  call,                   \* the storage call in progress
  calls,                  \* storage calls started so far
  bucketExists            \* storage.buckets has the row generated-images

vars == <<now, store, nextId, users, records, user, prevUserRef,
          transferAttemptedRef, transferInProgressRef, isTransferring,
          transferTimer, runs, started, guestSession, replaced,
          authUser, objects, rows, ms, call, calls, bucketExists>>

storeVars == <<store, nextId>>
sessionVars == <<guestSession, replaced>>
bucketVars == <<authUser, objects, rows, ms, call, calls, bucketExists>>
appVars == <<now, store, nextId, users, records, user, prevUserRef,
             transferAttemptedRef, transferInProgressRef, isTransferring,
             transferTimer, runs, started, guestSession, replaced>>
detectorVars == <<user, prevUserRef, transferAttemptedRef,
                  transferInProgressRef, isTransferring, transferTimer>>

\* ------------------------------------------------------------ helpers
Min(S) == CHOOSE x \in S : \A y \in S : x <= y
Max0(a, b) == IF a >= b THEN a ELSE b

\* the date part of an ISO timestamp
DatePart(ts) == ts \div HoursPerDay

\* keys() of idb-keyval returns the keys in ascending key order
RECURSIVE SortedById(_)
SortedById(S) ==
  IF S = {} THEN <<>>
  ELSE LET m == CHOOSE a \in S : \A b \in S : a.id <= b.id
       IN <<m>> \o SortedById(S \ {m})

\* ------------------------------------------------------ guestImageStorage
\* a record that expires as it is stored
NewGuestImage_NoTTL(id, timestamp) ==
  [id |-> id, createdAt |-> timestamp, expiresAt |-> timestamp]

\* the record saveGuestImageLocally stores
NewGuestImage(id, timestamp) ==
  [id |-> id, createdAt |-> timestamp, expiresAt |-> timestamp + TTL]

\* the suffix Math.random() contributes to a key
Suffixes == {0, 1}

\* `guest-image-${timestamp}-${randomId}`: keys order by timestamp, then suffix
ImageKey(timestamp, randomId) ==
  (timestamp - StartTime) * Cardinality(Suffixes) + randomId + 1

\* saveGuestImageLocally: set(imageId, imageData) writes the record under
\* its key, whatever the key held
saveGuestImageLocally(st, id, timestamp) ==
  {img \in st : img.id # id} \cup {NewGuestImage(id, timestamp)}

\* an expiry test that never fires
Expired_Never(img, t) == FALSE

\* getGuestImages: the images it returns, and the store it leaves
Expired(img, t) == t > img.expiresAt

\* a listing that returns the images of a valid guest session only
LiveImages_OfSession(st, t) ==
  IF guestSession.kind = "session" /\ t < guestSession.expiresAt
  THEN SortedById({img \in st : ~Expired(img, t)})
  ELSE <<>>

LiveImages(st, t) == SortedById({img \in st : ~Expired(img, t)})

\* a scan that deletes nothing
StoreAfterScan_Keep(st, t) == st

StoreAfterScan(st, t) == {img \in st : ~Expired(img, t)}

\* del(key): absent keys are a no-op
DelKey(st, key) == {img \in st : img.id # key}

\* ------------------------------------------------------------ guest session
\* localStorage.getItem('guest_session'): null ("absent"), a string
\* JSON.parse rejects ("unparseable"), JSON without a number in expiresAt
\* ("noExpiry"), or a GuestSession ("session")
NoSession ==
  [kind |-> "absent", sessionId |-> 0, createdAt |-> 0, expiresAt |-> 0]

\* `guest_${Date.now()}_${random}`: the id is taken by its timestamp, the
\* random part being the same in every call
NewSession(t) ==
  [kind |-> "session", sessionId |-> t, createdAt |-> t,
   expiresAt |-> t + SESSION_DURATION]

\* a session that never expires
SessionValid_Forever(stored, t) == stored.kind = "session"

\* a reader that takes whatever is persisted for a session
SessionValid_Unparsed(stored, t) ==
  stored.kind # "absent" /\ (stored.kind = "session" => t < stored.expiresAt)

\* getOrCreateGuestSession: the persisted value parses and is still valid
SessionValid(stored, t) == stored.kind = "session" /\ t < stored.expiresAt

\* getOrCreateGuestSession: the session it returns, which is also the value
\* persisted when it returns
getOrCreateGuestSession(stored, t) ==
  IF SessionValid(stored, t) THEN stored ELSE NewSession(t)

\* -------------------------------------------------------------- quota gate
NullDate == 0 - 1          \* last_generation_date is null

\* a free counter that no date resets
CreditsOfRow_NoReset(row, t) ==
  IF row.tier = "pro"
  THEN [available |-> row.credits_remaining, isProUser |-> TRUE,
        canGenerate |-> row.credits_remaining > 0]
  ELSE LET available == Max0(0, DailyCap - row.daily_generations)
       IN [available |-> available, isProUser |-> FALSE,
           canGenerate |-> available > 0]

\* checkUserCredits on a row that was read
CreditsOfRow(row, t) ==
  IF row.tier = "pro"
  THEN [available |-> row.credits_remaining, isProUser |-> TRUE,
        canGenerate |-> row.credits_remaining > 0]
  ELSE LET today == DatePart(t)
           lastGenDate == DatePart(row.last_generation_date)
           dailyUsed == IF lastGenDate = today THEN row.daily_generations ELSE 0
           available == Max0(0, DailyCap - dailyUsed)
       IN [available |-> available, isProUser |-> FALSE,
           canGenerate |-> available > 0]

\* a read error answered with a day's allowance
FailOpen == [available |-> DailyCap, isProUser |-> FALSE, canGenerate |-> TRUE]

\* checkUserCredits: a read error is caught and answered with zero credits
FailClosed == [available |-> 0, isProUser |-> FALSE, canGenerate |-> FALSE]
checkUserCredits(row, readOk, t) ==
  IF readOk THEN CreditsOfRow(row, t) ELSE FailClosed

\* the gate asking only whether any credit is left
InsufficientCredits_PerItem(creditInfo, n) == ~creditInfo.canGenerate

\* transferTempImagesToUser: the all-or-nothing gate
InsufficientCredits(creditInfo, n) ==
  ~creditInfo.canGenerate \/ creditInfo.available < n

\* the transfer without its early exit
NothingToTransfer_Never(images) == FALSE

\* transferTempImagesToUser: nothing to transfer
NothingToTransfer(images) == Len(images) = 0

\* a counter that is overwritten whatever the date
NewDailyCount_Overwrite(fetched, today, count) == count

\* deductUserCredits, free tier: the counter it writes
NewDailyCount(fetched, today, count) ==
  IF DatePart(fetched.last_generation_date) = DatePart(today)
  THEN fetched.daily_generations + count
  ELSE count

\* units of the account's quota that are used up, as the gate counts them
UnitsUsed(row, t) ==
  IF row.tier = "pro" THEN 0 - row.credits_remaining
  ELSE IF DatePart(row.last_generation_date) = DatePart(t)
       THEN row.daily_generations ELSE 0

\* ------------------------------------------------------------ the detector
\* the detector without its one-shot memory
LoginDetected_NoMemory(prevUser, u, attempted, inProgress) ==
  prevUser = None /\ u # None /\ ~inProgress

\* Router.tsx: "Detect login"
LoginDetected(prevUser, u, attempted, inProgress) ==
  prevUser = None /\ u # None /\ ~attempted /\ ~inProgress

\* a reset effect that clears nothing
ResetFlag_Keep(u, flag) == flag

\* Router.tsx: the reset effect, run when user changed
ResetFlag(u, flag) == IF u = None THEN FALSE ELSE flag

\* --------------------------------------------------------------- run records
EmptyResult ==
  [success |-> FALSE, transferredCount |-> 0, failedCount |-> 0,
   insufficientCredits |-> FALSE, creditsNeeded |-> 0, creditsAvailable |-> 0,
   errors |-> <<>>]

NoFetch == [daily_generations |-> 0, last_generation_date |-> NullDate]

IdleRun ==
  [pc |-> "idle", tab |-> 0, userId |-> None, called |-> FALSE,
   images |-> <<>>, i |-> 0, creditInfo |-> FailClosed,
   today |-> 0, fetched |-> NoFetch, result |-> EmptyResult,
   \* what the run did to its collaborators
   quotaReads |-> 0, uploads |-> 0, inserts |-> 0, removed |-> 0,
   deducts |-> 0, deducted |-> 0,
   keysOk |-> TRUE,         \* getGuestImages could read the store
   readOk |-> TRUE,         \* checkUserCredits could read the users row
   sessionOk |-> TRUE,      \* getSession returned a session
   counted |-> {},          \* keys for which transferredCount++ ran
   payloadDeletes |-> 0]    \* storage remove() calls: the code has none

Executing(r) == runs[r].pc # "idle"
IdleSlots == {r \in RunIds : runs[r].pc = "idle"}

\* a task runs to completion: no other task starts before the callback that
\* received a result is over
Returning == \E r \in RunIds : runs[r].pc = "returned"

\* run r awaits the result of the call named by label
At(r, label) == ~Returning /\ runs[r].pc = label

\* ----------------------------------------------------------------- Init
\* --------------------------------------------------- storage and its policies
Identities == {"u1", "u2"}

\* object names: `${root}/${owner}/${file}`, the file name carrying a stamp
NoPath == [root |-> "none", owner |-> None, file |-> "none", stamp |-> 0]
LogoPath(owner, file, stamp) ==
  [root |-> "logos", owner |-> owner, file |-> file, stamp |-> stamp]

\* policy "Authenticated users can upload to own folder"
UploadToOwnFolder(uid, path) == path.root = "logos" /\ path.owner = uid

\* policy "System can upload to logos folder"
SystemCanUpload(uid, path) == path.root = "logos"

\* FOR INSERT TO authenticated: permissive policies, any of which admits the row
InsertAllowed(uid, path) ==
  uid # None /\ (UploadToOwnFolder(uid, path) \/ SystemCanUpload(uid, path))

\* policy "Users can update own images"
UpdateAllowed(uid, path) ==
  uid # None /\ path.root = "logos" /\ path.owner = uid

\* policy "Users can delete own images"
DeleteAllowed(uid, path) ==
  uid # None /\ path.root = "logos" /\ path.owner = uid

\* logo_generations: the insert of a row is taken to be refused unless the
\* signed-in user is the row's user_id
RowInsertAdmitted(uid, user_id) == uid # None /\ uid = user_id

HasObject(objs, path) == \E o \in objs : o.path = path

\* upload(path, blob, {upsert}): what the policies and the bucket answer
UploadAdmitted(uid, objs, path, upsert) ==
  IF HasObject(objs, path)
  THEN upsert /\ InsertAllowed(uid, path) /\ UpdateAllowed(uid, path)
  ELSE InsertAllowed(uid, path)

PutObject(objs, path, payload) ==
  {o \in objs : o.path # path} \cup {[path |-> path, payload |-> payload]}

\* StorageVerificationResult as verifyStorageBucket initialises it
NoVerification ==
  [bucketExists |-> FALSE, bucketPublic |-> FALSE,
   canUpload |-> FALSE, canRead |-> FALSE, canDelete |-> FALSE,
   errors |-> {},                   \* which steps pushed a message
   permissions |-> [upload |-> FALSE, read |-> FALSE, delete |-> FALSE],
   deleteTried |-> FALSE]           \* remove([testPath]) was called

\* the activation record of a storage call
IdleCall ==
  [fn |-> "idle", pc |-> "idle", userId |-> None,
   run |-> 0,                       \* which storage call this is
   n |-> 0, i |-> 0,                \* transfer loop: images, current image
   path |-> NoPath,                 \* filePath of the current upload
   written |-> <<>>,                \* filePaths uploaded by this call
   success |-> FALSE,               \* the success field of what it returned
   uploaded |-> FALSE, inserted |-> FALSE,
   sessionUser |-> None,            \* the user getSession() returned
   removeTried |-> FALSE,           \* storage remove([filePath]) was called
   rev |-> "none",                  \* createStorageBucket: which revision runs
   result |-> NoVerification]       \* verifyStorageBucket: its result object

NoStorageCalls ==
  /\ authUser = None
  /\ objects = {}
  /\ rows = {}
  /\ ms = 0
  /\ call = IdleCall
  /\ calls = 0
  /\ bucketExists = TRUE

InitRows ==
  {[tier |-> "pro", credits_remaining |-> c, daily_generations |-> 0,
    last_generation_date |-> NullDate] : c \in 0..MaxCredits}
  \cup
  {[tier |-> "free", credits_remaining |-> 0, daily_generations |-> d,
    last_generation_date |-> StartTime] : d \in 0..DailyCap}
  \cup
  {[tier |-> "free", credits_remaining |-> 0, daily_generations |-> DailyCap,
    last_generation_date |-> StartTime - 1]}

Init ==
  /\ now = StartTime
  /\ store = {}
  /\ nextId = 1
  /\ users \in [Accounts -> InitRows]
  /\ records = [k \in 1..MaxArtifacts |-> 0]
  /\ user \in Accounts \cup {None}
  /\ prevUserRef = user
  /\ transferAttemptedRef = FALSE
  /\ transferInProgressRef = FALSE
  /\ isTransferring = FALSE
  /\ transferTimer = None
  /\ runs = [r \in RunIds |-> IdleRun]
  /\ started = 0
  /\ guestSession = NoSession
  /\ replaced = NoSession
  /\ NoStorageCalls

\* ------------------------------------------------- GuestLogoGenerator effects
\* the transfer effect (cleanup of the previous run of the effect, then its
\* body) followed, when user changed, by the reset effect
RunEffects(u, userChanged) ==
  LET fires == LoginDetected(prevUserRef, u, transferAttemptedRef,
                             transferInProgressRef)
      attempted1 == IF fires THEN TRUE ELSE transferAttemptedRef
      inProgress1 == IF fires THEN TRUE ELSE transferInProgressRef
  IN /\ user' = u
     /\ transferTimer' = IF fires THEN u ELSE None
     /\ isTransferring' = IF fires THEN TRUE ELSE isTransferring
     /\ prevUserRef' = IF fires THEN prevUserRef ELSE u
     /\ transferAttemptedRef' =
          IF userChanged THEN ResetFlag(u, attempted1) ELSE attempted1
     /\ transferInProgressRef' =
          IF userChanged THEN ResetFlag(u, inProgress1) ELSE inProgress1

\* the identity provider reports a login or a logout
AuthChange(u) ==
  /\ ~Returning
  /\ u # user
  /\ RunEffects(u, TRUE)
  /\ UNCHANGED <<now, store, nextId, users, records, runs, started>>
  /\ UNCHANGED sessionVars
  /\ UNCHANGED bucketVars

\* storeTempImage of an image under key id, and the getTempImages() with
\* which handleGenerate verifies it
storeTempImage(id) ==
  LET session == getOrCreateGuestSession(guestSession, now)
  IN /\ guestSession' = session
     /\ replaced' = IF session = guestSession THEN replaced ELSE guestSession
     /\ store' = StoreAfterScan(saveGuestImageLocally(store, id, now), now)
     /\ nextId' = nextId + 1

\* handleGenerate: a guest's logo is staged; setGeneratedLogo re-runs the
\* transfer effect. The key of the image has a suffix no earlier key has.
handleGenerate ==
  /\ ~Returning
  /\ IF user = None /\ nextId <= MaxArtifacts
     THEN storeTempImage(nextId)
     ELSE UNCHANGED <<store, nextId, guestSession, replaced>>
  /\ RunEffects(user, FALSE)
  /\ UNCHANGED <<now, users, records, runs, started>>
  /\ UNCHANGED bucketVars

\* handleGenerate of a guest, with the key saveGuestImageLocally builds from
\* the clock and the suffix Math.random() returns
handleGenerateKeyed(randomId) ==
  /\ ~Returning
  /\ user = None /\ nextId <= MaxArtifacts
  /\ storeTempImage(ImageKey(now, randomId))
  /\ RunEffects(user, FALSE)
  /\ UNCHANGED <<now, users, records, runs, started>>
  /\ UNCHANGED bucketVars

\* the browser's localStorage loses the item
SessionLost ==
  /\ ~Returning
  /\ guestSession.kind = "session"
  /\ guestSession' = NoSession
  /\ UNCHANGED <<now, store, nextId, users, records, runs, started, replaced>>
  /\ UNCHANGED detectorVars
  /\ UNCHANGED bucketVars

Tick ==
  /\ ~Returning
  /\ now < StartTime + MaxTime
  /\ now' = now + 1
  /\ UNCHANGED <<store, nextId, users, records, runs, started>>
  /\ UNCHANGED detectorVars
  /\ UNCHANGED sessionVars
  /\ UNCHANGED bucketVars

\* ------------------------------------------------------- the timer callback
\* a step of run r after which the callback awaits again
Continue(r, rec) ==
  /\ runs' = [runs EXCEPT ![r] = rec]
  /\ UNCHANGED <<transferInProgressRef, isTransferring>>

\* the step of run r in which transferTempImagesToUser returns rec.result
Finish(r, rec) == Continue(r, [rec EXCEPT !.pc = "returned"])

\* the callback is over: the callback of the modelled tab releases the guard
Release(r) ==
  /\ runs' = [runs EXCEPT ![r] = IdleRun]
  /\ IF runs[r].tab = 1
     THEN transferInProgressRef' = FALSE /\ isTransferring' = FALSE
     ELSE UNCHANGED <<transferInProgressRef, isTransferring>>

RunFrame == UNCHANGED <<now, nextId, user, prevUserRef, transferAttemptedRef,
                        transferTimer, started, guestSession, replaced,
                        bucketVars>>

\* result.errors.push: the messages of the loop name the image key
NoKey == 0
PushError(res, e, key) ==
  [res EXCEPT !.errors = Append(@, [reason |-> e, key |-> key])]

\* setTimeout expires: the callback starts with the captured user
TimerFire ==
  /\ ~Returning
  /\ transferTimer # None
  /\ started < MaxRuns
  /\ LET r == Min(IdleSlots)
     IN runs' = [runs EXCEPT ![r] = [IdleRun EXCEPT !.pc = "getTempImages",
                                       !.tab = 1, !.userId = transferTimer]]
  /\ transferTimer' = None
  /\ started' = started + 1
  /\ UNCHANGED <<now, store, nextId, users, records, user, prevUserRef,
                 transferAttemptedRef, transferInProgressRef, isTransferring>>
  /\ UNCHANGED sessionVars
  /\ UNCHANGED bucketVars

\* the same callback started by the detector of another tab of the browser
OtherTabTimerFire(a) ==
  /\ ~Returning
  /\ started < MaxRuns
  /\ LET r == Min(IdleSlots)
     IN runs' = [runs EXCEPT ![r] = [IdleRun EXCEPT !.pc = "getTempImages",
                                       !.tab = 2, !.userId = a]]
  /\ started' = started + 1
  /\ UNCHANGED <<now, store, nextId, users, records>>
  /\ UNCHANGED detectorVars
  /\ UNCHANGED sessionVars
  /\ UNCHANGED bucketVars

\* callback: getTempImages() and the "no guest images" exit
GetTempImages(r, keysOk) ==
  /\ At(r, "getTempImages")
  /\ LET guestImages == IF keysOk THEN LiveImages(store, now) ELSE <<>>
     IN /\ store' = IF keysOk THEN StoreAfterScan(store, now) ELSE store
        /\ IF Len(guestImages) = 0
           THEN Release(r)
           ELSE Continue(r, [runs[r] EXCEPT !.pc = "getGuestImages"])
  /\ UNCHANGED <<users, records>>
  /\ RunFrame

\* transferTempImagesToUser, step 1: getGuestImages() and the empty exit
GetGuestImages(r, keysOk) ==
  /\ At(r, "getGuestImages")
  /\ LET images == IF keysOk THEN LiveImages(store, now) ELSE <<>>
         rec == [runs[r] EXCEPT !.called = TRUE, !.images = images,
                                !.keysOk = keysOk]
     IN /\ store' = IF keysOk THEN StoreAfterScan(store, now) ELSE store
        /\ IF NothingToTransfer(images)
           THEN Finish(r, [rec EXCEPT !.result.success = TRUE])
           ELSE Continue(r, [rec EXCEPT !.pc = "checkUserCredits"])
  /\ UNCHANGED <<users, records>>
  /\ RunFrame

\* transferTempImagesToUser, step 2: checkUserCredits and the gate
CheckCredits(r, readOk) ==
  /\ At(r, "checkUserCredits")
  /\ LET creditInfo == checkUserCredits(users[runs[r].userId], readOk, now)
         n == Len(runs[r].images)
         rec == [runs[r] EXCEPT !.creditInfo = creditInfo,
                                !.readOk = readOk,
                                !.quotaReads = @ + 1,
                                !.result.creditsAvailable = creditInfo.available,
                                !.result.creditsNeeded = n]
     IN IF InsufficientCredits(creditInfo, n)
        THEN Finish(r, [rec EXCEPT !.result =
                          PushError([@ EXCEPT !.insufficientCredits = TRUE],
                                    "insufficient", NoKey)])
        ELSE Continue(r, [rec EXCEPT !.pc = "getSession"])
  /\ UNCHANGED <<store, users, records>>
  /\ RunFrame

\* a run that goes on to its loop whatever getSession answers
GetSession_Unchecked(r, ok) ==
  /\ At(r, "getSession")
  /\ Continue(r, [runs[r] EXCEPT
                    !.pc = "item", !.i = 1,
                    !.sessionOk = ok /\ (runs[r].tab = 1 => user # None)])
  /\ UNCHANGED <<store, users, records>>
  /\ RunFrame

\* transferTempImagesToUser, step 3: supabase.auth.getSession()
GetSession(r, ok) ==
  /\ At(r, "getSession")
  /\ IF ok /\ (runs[r].tab = 1 => user # None)
     THEN Continue(r, [runs[r] EXCEPT !.pc = "item", !.i = 1])
     ELSE Finish(r, [runs[r] EXCEPT !.result = PushError(@, "auth", NoKey),
                                    !.sessionOk = FALSE])
  /\ UNCHANGED <<store, users, records>>
  /\ RunFrame

\* a loop that reports success only when nothing failed
AfterItem_AllOrNone(r, rec) ==
  LET res == [rec.result EXCEPT !.success = (rec.result.failedCount = 0)]
  IN IF rec.i < Len(rec.images)
     THEN Continue(r, [rec EXCEPT !.i = @ + 1, !.pc = "item"])
     ELSE IF res.transferredCount > 0
          THEN Continue(r, [rec EXCEPT !.result = res, !.pc = "deduct",
                                       !.today = now])
          ELSE Finish(r, [rec EXCEPT !.result = res])

\* a loop after which deductUserCredits is called whatever was transferred
AfterItem_Always(r, rec) ==
  LET res == [rec.result EXCEPT !.success =
                (rec.result.transferredCount > 0 \/ rec.result.failedCount = 0)]
  IN IF rec.i < Len(rec.images)
     THEN Continue(r, [rec EXCEPT !.i = @ + 1, !.pc = "item"])
     ELSE Continue(r, [rec EXCEPT !.result = res, !.pc = "deduct",
                                  !.today = now])

\* transferGuestImagesToUserAccount: after item i the loop goes on, or ends;
\* after the loop transferTempImagesToUser copies the counts and, if anything
\* was transferred, calls deductUserCredits
AfterItem(r, rec) ==
  LET res == [rec.result EXCEPT !.success =
                (rec.result.transferredCount > 0 \/ rec.result.failedCount = 0)]
  IN IF rec.i < Len(rec.images)
     THEN Continue(r, [rec EXCEPT !.i = @ + 1, !.pc = "item"])
     ELSE IF res.transferredCount > 0
          THEN Continue(r, [rec EXCEPT !.result = res, !.pc = "deduct",
                                       !.today = now])
          ELSE Finish(r, [rec EXCEPT !.result = res])

\* a loop that gives up at the first failed item
Failed_Abort(rec, e) ==
  [rec EXCEPT !.result = PushError([@ EXCEPT !.failedCount = @ + 1], e,
                                   rec.images[rec.i].id),
              !.i = Len(rec.images)]

\* loop body: failedCount++ and errors.push for the current item
Failed(rec, e) ==
  [rec EXCEPT !.result = PushError([@ EXCEPT !.failedCount = @ + 1], e,
                                   rec.images[rec.i].id)]

\* loop body up to the storage upload: the expiry check (ok: del succeeded),
\* else uploadAndSaveLogo's upload (ok: the upload succeeded)
Item(r, ok) ==
  /\ At(r, "item")
  /\ LET img == runs[r].images[runs[r].i]
     IN IF Expired(img, now)
        THEN IF ok
             THEN /\ store' = DelKey(store, img.id)
                  /\ AfterItem(r, Failed([runs[r] EXCEPT !.removed = @ + 1],
                                         "expired"))
             ELSE /\ store' = store
                  /\ AfterItem(r, Failed(runs[r], "processing"))
        ELSE /\ store' = store
             /\ IF ok
                THEN Continue(r, [runs[r] EXCEPT !.uploads = @ + 1,
                                                 !.pc = "insert"])
                ELSE AfterItem(r, Failed([runs[r] EXCEPT !.uploads = @ + 1],
                                         "upload"))
  /\ UNCHANGED <<users, records>>
  /\ RunFrame

\* a loop body that goes on to the next item without awaiting del(imageKey)
Insert_NoAwaitDel(r, ok) ==
  /\ At(r, "insert")
  /\ LET img == runs[r].images[runs[r].i]
         rec == [runs[r] EXCEPT !.inserts = @ + 1]
     IN IF ok
        THEN /\ records' = [records EXCEPT ![img.id] = @ + 1]
             /\ AfterItem(r, [rec EXCEPT !.result.transferredCount = @ + 1,
                                         !.counted = @ \cup {img.id}])
        ELSE /\ records' = records
             /\ AfterItem(r, Failed(rec, "insert"))
  /\ UNCHANGED <<store, users>>
  /\ RunFrame

\* uploadAndSaveLogo: the insert into logo_generations
Insert(r, ok) ==
  /\ At(r, "insert")
  /\ LET img == runs[r].images[runs[r].i]
         rec == [runs[r] EXCEPT !.inserts = @ + 1]
     IN IF ok
        THEN /\ records' = [records EXCEPT ![img.id] = @ + 1]
             /\ Continue(r, [rec EXCEPT !.result.transferredCount = @ + 1,
                                        !.counted = @ \cup {img.id},
                                        !.pc = "del"])
        ELSE /\ records' = records
             /\ AfterItem(r, Failed(rec, "insert"))
  /\ UNCHANGED <<store, users>>
  /\ RunFrame

\* loop body: del(imageKey) after a successful transfer
Del(r, ok) ==
  /\ At(r, "del")
  /\ LET img == runs[r].images[runs[r].i]
     IN IF ok
        THEN /\ store' = DelKey(store, img.id)
             /\ AfterItem(r, [runs[r] EXCEPT !.removed = @ + 1])
        ELSE /\ store' = store
             /\ AfterItem(r, Failed(runs[r], "processing"))
  /\ UNCHANGED <<users, records>>
  /\ RunFrame

\* deductUserCredits: the pro update, or the free tier's select
Deduct(r, ok) ==
  /\ At(r, "deduct")
  /\ LET a == runs[r].userId
         count == runs[r].result.transferredCount
         row == [users[a] EXCEPT !.credits_remaining = @ - count,
                                 !.last_generation_date = runs[r].today]
     IN IF ~ok
        THEN /\ users' = users
             /\ Finish(r, [runs[r] EXCEPT !.result = PushError(@, "transfer", NoKey)])
        ELSE IF runs[r].creditInfo.isProUser
             THEN /\ users' = [users EXCEPT ![a] = row]
                  /\ Finish(r, [runs[r] EXCEPT
                         !.deducts = @ + 1,
                         !.deducted = UnitsUsed(row, runs[r].today)
                                      - UnitsUsed(users[a], runs[r].today)])
             ELSE /\ users' = users
                  /\ Continue(r, [runs[r] EXCEPT
                         !.pc = "deductWrite",
                         !.fetched = [daily_generations |->
                                        users[a].daily_generations,
                                      last_generation_date |->
                                        users[a].last_generation_date]])
  /\ UNCHANGED <<store, records>>
  /\ RunFrame

\* deductUserCredits, free tier: the update of daily_generations
DeductWrite(r, ok) ==
  /\ At(r, "deductWrite")
  /\ LET a == runs[r].userId
         count == runs[r].result.transferredCount
         row == [users[a] EXCEPT
                   !.daily_generations =
                      NewDailyCount(runs[r].fetched, runs[r].today, count),
                   !.last_generation_date = runs[r].today]
     IN IF ok
        THEN /\ users' = [users EXCEPT ![a] = row]
             /\ Finish(r, [runs[r] EXCEPT
                    !.deducts = @ + 1,
                    !.deducted = UnitsUsed(row, runs[r].today)
                                 - UnitsUsed(users[a], runs[r].today)])
        ELSE /\ users' = users
             /\ Finish(r, [runs[r] EXCEPT !.result = PushError(@, "transfer", NoKey)])
  /\ UNCHANGED <<store, records>>
  /\ RunFrame

\* callback: the lines after "await transferTempImagesToUser", which run in
\* the task in which the call returns
CallbackEnd(r) ==
  /\ runs[r].pc = "returned"
  /\ Release(r)
  /\ UNCHANGED <<store, users, records>>
  /\ RunFrame

\* a step of the callback; Outcomes are the results its collaborator may give
RunStep(r, Outcomes) ==
  \E ok \in Outcomes :
    \/ GetTempImages(r, ok)
    \/ GetGuestImages(r, ok)
    \/ CheckCredits(r, ok)
    \/ GetSession(r, ok)
    \/ Item(r, ok)
    \/ Insert(r, ok)
    \/ Del(r, ok)
    \/ Deduct(r, ok)
    \/ DeductWrite(r, ok)

Next ==
  \/ \E u \in Accounts \cup {None} : AuthChange(u)
  \/ handleGenerate
  \/ TimerFire
  \/ \E a \in Accounts : OtherTabTimerFire(a)
  \/ \E r \in RunIds : RunStep(r, BOOLEAN)
  \/ \E r \in RunIds : CallbackEnd(r)

\* the whole system over a few hours in which nothing expires: the modelled
\* tab, callbacks of another tab, collaborators that may fail
Spec == Init /\ [][Next]_vars

\* one tab whose identity changes only between callbacks
Alone == \A r \in RunIds : ~Executing(r)

AuthChangeAlone(u) == Alone /\ AuthChange(u)

NextRun ==
  \/ \E u \in Accounts \cup {None} : AuthChangeAlone(u)
  \/ handleGenerate
  \/ TimerFire
  \/ \E r \in RunIds : RunStep(r, BOOLEAN)
  \/ \E r \in RunIds : CallbackEnd(r)

SpecRun == Init /\ [][NextRun]_vars

\* the same tab while time passes and images expire, with collaborators that
\* answer
NextClock ==
  \/ \E u \in Accounts \cup {None} : AuthChangeAlone(u)
  \/ handleGenerate
  \/ Tick
  \/ TimerFire
  \/ \E r \in RunIds : RunStep(r, {TRUE})
  \/ \E r \in RunIds : CallbackEnd(r)

SpecClock == Init /\ [][NextClock]_vars

\* the detector under every interleaving of identity observations with its
\* callbacks, for a free account with its day's allowance unused, with
\* collaborators that answer
InitDetector ==
  /\ Init
  /\ \A a \in Accounts :
        users[a].tier = "free" /\ users[a].daily_generations = 0

NextDetector ==
  \/ \E u \in Accounts \cup {None} : AuthChange(u)
  \/ handleGenerate
  \/ TimerFire
  \/ \E r \in RunIds : RunStep(r, {TRUE})
  \/ \E r \in RunIds : CallbackEnd(r)

SpecDetector == InitDetector /\ [][NextDetector]_vars

\* one tab of a guest who staged BatchSize images within the hour and then
\* logs in, with collaborators that may fail
InitBatch ==
  /\ now = StartTime
  /\ store = {NewGuestImage(k, StartTime) : k \in 1..BatchSize}
  /\ nextId = BatchSize + 1
  /\ users \in [Accounts ->
        {[tier |-> "pro", credits_remaining |-> BatchSize,
          daily_generations |-> 0, last_generation_date |-> NullDate],
         [tier |-> "free", credits_remaining |-> 0,
          daily_generations |-> 0, last_generation_date |-> StartTime]}]
  /\ records = [k \in 1..BatchSize |-> 0]
  /\ user = None
  /\ prevUserRef = user
  /\ transferAttemptedRef = FALSE
  /\ transferInProgressRef = FALSE
  /\ isTransferring = FALSE
  /\ transferTimer = None
  /\ runs = [r \in RunIds |-> IdleRun]
  /\ started = 0
  /\ guestSession = NoSession
  /\ replaced = NoSession
  /\ NoStorageCalls

NextBatch ==
  \/ \E u \in Accounts \cup {None} : AuthChangeAlone(u)
  \/ TimerFire
  \/ \E r \in RunIds : RunStep(r, BOOLEAN)
  \/ \E r \in RunIds : CallbackEnd(r)

SpecBatch == InitBatch /\ [][NextBatch]_vars

\* a guest whose browser holds a session of an earlier visit that expires
\* within the hour, or none, or a damaged one; images are stored under the keys saveGuestImageLocally
\* builds, the clock runs, collaborators answer
CorruptSessions ==
  {[NoSession EXCEPT !.kind = "unparseable"],
   [NoSession EXCEPT !.kind = "noExpiry"]}

PersistedSessions ==
  {NoSession} \cup CorruptSessions
  \cup {NewSession(StartTime - SESSION_DURATION + 1)}

KeySpace ==
  {ImageKey(t, rnd) : t \in StartTime..(StartTime + MaxTime), rnd \in Suffixes}

InitGuest ==
  /\ now = StartTime
  /\ store = {}
  /\ nextId = 1
  /\ users = [a \in Accounts |->
                [tier |-> "free", credits_remaining |-> 0,
                 daily_generations |-> 0, last_generation_date |-> StartTime]]
  /\ records = [k \in KeySpace |-> 0]
  /\ user = None
  /\ prevUserRef = user
  /\ transferAttemptedRef = FALSE
  /\ transferInProgressRef = FALSE
  /\ isTransferring = FALSE
  /\ transferTimer = None
  /\ runs = [r \in RunIds |-> IdleRun]
  /\ started = 0
  /\ guestSession \in PersistedSessions
  /\ replaced = NoSession
  /\ NoStorageCalls

NextGuest ==
  \/ \E u \in Accounts \cup {None} : AuthChangeAlone(u)
  \/ \E rnd \in Suffixes : handleGenerateKeyed(rnd)
  \/ SessionLost
  \/ Tick
  \/ TimerFire
  \/ \E r \in RunIds : RunStep(r, {TRUE})
  \/ \E r \in RunIds : CallbackEnd(r)

SpecGuest == InitGuest /\ [][NextGuest]_vars

\* ------------------------------------------------------------ storage calls
\* supabase.auth: sign in, sign out, or sign in as another user
SignIn(u) ==
  /\ u # authUser
  /\ authUser' = u
  /\ UNCHANGED <<objects, rows, ms, call, calls>>
  /\ UNCHANGED <<appVars, bucketExists>>

\* a millisecond passes
MsTick ==
  /\ ms < MaxMs
  /\ ms' = ms + 1
  /\ UNCHANGED <<authUser, objects, rows, call, calls>>
  /\ UNCHANGED <<appVars, bucketExists>>

\* a client of the signed-in user inserts an object: storage.objects FOR INSERT
RawPaths ==
  {[root |-> r, owner |-> o, file |-> "raw", stamp |-> 0] :
     r \in {"logos", "other"}, o \in Identities}

StorageInsert(path) ==
  /\ calls < MaxCalls
  /\ ~HasObject(objects, path)
  /\ InsertAllowed(authUser, path)
  /\ objects' = PutObject(objects, path, [kind |-> "raw", run |-> 0, item |-> 0])
  /\ calls' = calls + 1
  /\ UNCHANGED <<authUser, rows, ms, call>>
  /\ UNCHANGED <<appVars, bucketExists>>

\* the call has returned to its caller
CallReturn ==
  /\ call.pc = "returned"
  /\ call' = IdleCall
  /\ UNCHANGED <<authUser, objects, rows, ms, calls>>
  /\ UNCHANGED <<appVars, bucketExists>>

\* transferTempImagesToUser for the n images of user u, who has just logged
\* in: getSession(), then the loop as storage and logo_generations see it
StartTransfer(u, n) ==
  /\ call.fn = "idle" /\ calls < MaxCalls
  /\ authUser = u
  /\ call' = [IdleCall EXCEPT !.fn = "transfer", !.pc = "upload", !.userId = u,
                              !.n = n, !.i = 1, !.sessionUser = authUser,
                              !.run = calls + 1]
  /\ calls' = calls + 1
  /\ UNCHANGED <<authUser, objects, rows, ms>>
  /\ UNCHANGED <<appVars, bucketExists>>

\* the loop goes to the next image, or ends
NextItem(c) ==
  IF c.i < c.n THEN [c EXCEPT !.i = @ + 1, !.pc = "upload"]
  ELSE [c EXCEPT !.pc = "returned"]

\* the blob of image i of the call
ImageOf(c) == [kind |-> "image", run |-> c.run, item |-> c.i]

\* uploadAndSaveLogo: fileName, filePath and the upload with upsert: true
TransferUpload(ok) ==
  /\ call.fn = "transfer" /\ call.pc = "upload"
  /\ LET filePath == LogoPath(call.userId, "logo", ms)
     IN IF ok /\ UploadAdmitted(authUser, objects, filePath, TRUE)
        THEN /\ objects' = PutObject(objects, filePath, ImageOf(call))
             /\ call' = [call EXCEPT !.pc = "insert", !.path = filePath,
                                     !.written = Append(@, filePath)]
        ELSE /\ objects' = objects
             /\ call' = NextItem(call)
  /\ UNCHANGED <<authUser, rows, ms, calls>>
  /\ UNCHANGED <<appVars, bucketExists>>

\* uploadAndSaveLogo: the insert into logo_generations of the row with the
\* public URL of filePath
TransferInsert(ok) ==
  /\ call.fn = "transfer" /\ call.pc = "insert"
  /\ rows' = IF ok /\ RowInsertAdmitted(authUser, call.userId)
             THEN rows \cup {[user_id |-> call.userId, path |-> call.path,
                              payload |-> ImageOf(call)]}
             ELSE rows
  /\ call' = NextItem(call)
  /\ UNCHANGED <<authUser, objects, ms, calls>>
  /\ UNCHANGED <<appVars, bucketExists>>

\* handleSaveGeneratedLogo: steps 1 and 2, input validation and getSession()
handleSaveGeneratedLogo(u, outcome) ==
  /\ call.fn = "idle" /\ calls < MaxCalls
  /\ LET session == IF outcome = "ok" THEN authUser ELSE None
         c == [IdleCall EXCEPT !.fn = "save", !.userId = u,
                               !.sessionUser = session, !.run = calls + 1]
     IN call' = IF outcome = "ok" /\ session = u
                THEN [c EXCEPT !.pc = "upload"]
                ELSE [c EXCEPT !.pc = "returned"]
  /\ calls' = calls + 1
  /\ UNCHANGED <<authUser, objects, rows, ms>>
  /\ UNCHANGED <<appVars, bucketExists>>

\* handleSaveGeneratedLogo: steps 3 and 4, filePath and the upload with
\* upsert: false; the random part of the name is the same in every call
SaveUpload(ok) ==
  /\ call.fn = "save" /\ call.pc = "upload"
  /\ LET filePath == LogoPath(call.userId, "save", ms)
     IN IF ok /\ UploadAdmitted(authUser, objects, filePath, FALSE)
        THEN /\ objects' = PutObject(objects, filePath,
                                     [kind |-> "logo", run |-> call.run,
                                      item |-> 0])
             /\ call' = [call EXCEPT !.pc = "insert", !.path = filePath,
                                     !.uploaded = TRUE]
        ELSE /\ objects' = objects
             /\ call' = [call EXCEPT !.pc = "returned"]
  /\ UNCHANGED <<authUser, rows, ms, calls>>
  /\ UNCHANGED <<appVars, bucketExists>>

\* an insert failure answered without the removal of the uploaded file
SaveInsert_NoCleanup(ok) ==
  /\ call.fn = "save" /\ call.pc = "insert"
  /\ IF ok /\ RowInsertAdmitted(authUser, call.userId)
     THEN /\ rows' = rows \cup {[user_id |-> call.userId, path |-> call.path,
                                 payload |-> [kind |-> "logo", run |-> call.run,
                                              item |-> 0]]}
          /\ call' = [call EXCEPT !.pc = "returned", !.inserted = TRUE,
                                  !.success = TRUE]
     ELSE /\ rows' = rows
          /\ call' = [call EXCEPT !.pc = "returned"]
  /\ UNCHANGED <<authUser, objects, ms, calls>>
  /\ UNCHANGED <<appVars, bucketExists>>

\* handleSaveGeneratedLogo: step 7, the insert into logo_generations, and
\* step 8
SaveInsert(ok) ==
  /\ call.fn = "save" /\ call.pc = "insert"
  /\ IF ok /\ RowInsertAdmitted(authUser, call.userId)
     THEN /\ rows' = rows \cup {[user_id |-> call.userId, path |-> call.path,
                                 payload |-> [kind |-> "logo", run |-> call.run,
                                              item |-> 0]]}
          /\ call' = [call EXCEPT !.pc = "returned", !.inserted = TRUE,
                                  !.success = TRUE]
     ELSE /\ rows' = rows
          /\ call' = [call EXCEPT !.pc = "cleanup"]
  /\ UNCHANGED <<authUser, objects, ms, calls>>
  /\ UNCHANGED <<appVars, bucketExists>>

\* handleSaveGeneratedLogo: remove([filePath]) after a failed insert, whose
\* own failure is logged; then the throw that the outer catch answers
SaveCleanup(ok) ==
  /\ call.fn = "save" /\ call.pc = "cleanup"
  /\ objects' = IF ok /\ DeleteAllowed(authUser, call.path)
                THEN {o \in objects : o.path # call.path}
                ELSE objects
  /\ call' = [call EXCEPT !.pc = "returned", !.removeTried = TRUE]
  /\ UNCHANGED <<authUser, rows, ms, calls>>
  /\ UNCHANGED <<appVars, bucketExists>>

\* a browser tab whose user signs in and out while images are saved to the
\* account and transferred to it
InitStorage ==
  /\ now = StartTime
  /\ store = {}
  /\ nextId = 1
  /\ users = [a \in Accounts |->
                [tier |-> "free", credits_remaining |-> 0,
                 daily_generations |-> 0, last_generation_date |-> StartTime]]
  /\ records = [k \in 1..MaxArtifacts |-> 0]
  /\ user = None
  /\ prevUserRef = user
  /\ transferAttemptedRef = FALSE
  /\ transferInProgressRef = FALSE
  /\ isTransferring = FALSE
  /\ transferTimer = None
  /\ runs = [r \in RunIds |-> IdleRun]
  /\ started = 0
  /\ guestSession = NoSession
  /\ replaced = NoSession
  /\ NoStorageCalls

NextStorage ==
  \/ \E u \in Identities \cup {None} : SignIn(u)
  \/ MsTick
  \/ \E path \in RawPaths : StorageInsert(path)
  \/ \E u \in Identities, n \in 1..MaxArtifacts : StartTransfer(u, n)
  \/ \E ok \in BOOLEAN : TransferUpload(ok)
  \/ \E ok \in BOOLEAN : TransferInsert(ok)
  \/ \E u \in Identities, outcome \in {"ok", "invalid", "sessionError"} :
       handleSaveGeneratedLogo(u, outcome)
  \/ \E ok \in BOOLEAN : SaveUpload(ok)
  \/ \E ok \in BOOLEAN : SaveInsert(ok)
  \/ \E ok \in BOOLEAN : SaveCleanup(ok)
  \/ CallReturn

SpecStorage == InitStorage /\ [][NextStorage]_vars

\* the same tab with handleSaveGeneratedLogo as its only storage call
NextSave ==
  \/ \E u \in Identities \cup {None} : SignIn(u)
  \/ MsTick
  \/ \E u \in Identities, outcome \in {"ok", "invalid", "sessionError"} :
       handleSaveGeneratedLogo(u, outcome)
  \/ \E ok \in BOOLEAN : SaveUpload(ok)
  \/ \E ok \in BOOLEAN : SaveInsert(ok)
  \/ \E ok \in BOOLEAN : SaveCleanup(ok)
  \/ CallReturn

SpecSave == InitStorage /\ [][NextSave]_vars

\* ------------------------------------------------------ StorageDiagnostics
\* the two revisions of storageVerification.ts in the repository
Revisions == {"lib", "part_000"}

\* what a storage or auth request can answer: data, { error }, or a rejection
Answers == {"ok", "error", "throws"}

\* the migration that inserts the bucket row is applied to the project
MigrationApplied ==
  /\ ~bucketExists
  /\ bucketExists' = TRUE
  /\ UNCHANGED <<authUser, objects, rows, ms, call, calls>>
  /\ UNCHANGED appVars

\* createStorageBucket up to the result of its probe: listBuckets() and find
\* in lib, list('', {limit: 1}) on the bucket in part_000. A probe that
\* answers finds the bucket exactly when it exists
createStorageBucket(rev, probe) ==
  /\ call.fn = "idle" /\ calls < MaxCalls
  /\ call' =
       IF probe = "throws"
       THEN [IdleCall EXCEPT !.fn = "create", !.rev = rev, !.run = calls + 1,
                             !.pc = "returned", !.success = FALSE]
       ELSE IF probe = "ok" /\ bucketExists
       THEN [IdleCall EXCEPT !.fn = "create", !.rev = rev, !.run = calls + 1,
                             !.pc = "returned", !.success = TRUE]
       ELSE [IdleCall EXCEPT !.fn = "create", !.rev = rev, !.run = calls + 1,
                             !.pc = "createBucket"]
  /\ calls' = calls + 1
  /\ UNCHANGED <<authUser, objects, rows, ms, bucketExists>>
  /\ UNCHANGED appVars

\* the error of storage.createBucket('generated-images'), "none" when the
\* bucket was created; a request that is served finds the bucket or makes it
createBucketError(exists, answer) ==
  IF answer = "ok"
  THEN IF exists THEN "already exists" ELSE "none"
  ELSE "failed"

\* createStorageBucket after createBucket answered
CreateBucket(answer) ==
  /\ call.fn = "create" /\ call.pc = "createBucket"
  /\ LET error == createBucketError(bucketExists, answer)
     IN /\ bucketExists' = (bucketExists \/ error = "none")
        /\ call' =
             [call EXCEPT
                !.pc = "returned",
                !.success =
                  /\ answer # "throws"
                  /\ \/ error = "none"
                     \/ call.rev = "part_000" /\ error = "already exists"]
  /\ UNCHANGED <<authUser, objects, rows, ms, calls>>
  /\ UNCHANGED appVars

\* result.errors.push(...)
Fail(c, step) == [c EXCEPT !.result.errors = @ \cup {step}]

\* the outer catch of verifyStorageBucket, then return result
Caught(c) ==
  [c EXCEPT !.result.errors = @ \cup {"verification"}, !.pc = "returned"]

BucketFound(c) ==
  [c EXCEPT !.result.bucketExists = TRUE, !.result.bucketPublic = TRUE,
            !.pc = "upload"]

\* verifyStorageBucket(userId), called by the diagnostics page for its user
verifyStorageBucket(u) ==
  /\ call.fn = "idle" /\ calls < MaxCalls
  /\ authUser = u
  /\ call' = [IdleCall EXCEPT !.fn = "verify", !.pc = "listBuckets",
                              !.userId = u, !.run = calls + 1]
  /\ calls' = calls + 1
  /\ UNCHANGED <<authUser, objects, rows, ms, bucketExists>>
  /\ UNCHANGED appVars

\* Step 1: listBuckets() and the search for generated-images
VerifyListBuckets(answer) ==
  /\ call.fn = "verify" /\ call.pc = "listBuckets"
  /\ call' = IF answer = "throws" THEN Caught(call)
             ELSE IF answer = "error" THEN [call EXCEPT !.pc = "list"]
             ELSE IF bucketExists THEN BucketFound(call)
             ELSE [Fail(call, "bucket") EXCEPT !.pc = "upload"]
  /\ UNCHANGED <<authUser, objects, rows, ms, calls, bucketExists>>
  /\ UNCHANGED appVars

\* Step 1 when listing failed: list('', {limit: 1}) on the bucket itself
VerifyList(answer) ==
  /\ call.fn = "verify" /\ call.pc = "list"
  /\ call' = IF answer = "throws" THEN Caught(call)
             ELSE IF answer = "ok" /\ bucketExists THEN BucketFound(call)
             ELSE [Fail(call, "bucket") EXCEPT !.pc = "upload"]
  /\ UNCHANGED <<authUser, objects, rows, ms, calls, bucketExists>>
  /\ UNCHANGED appVars

TestPath(c) == LogoPath(c.userId, "test", ms)

\* Steps 2 and 3: testPath and the upload of the test file with upsert: true
VerifyUpload(answer) ==
  /\ call.fn = "verify" /\ call.pc = "upload"
  /\ LET testPath == TestPath(call)
         stored == /\ answer = "ok"
                   /\ bucketExists
                   /\ UploadAdmitted(authUser, objects, testPath, TRUE)
     IN /\ objects' =
             IF stored
             THEN PutObject(objects, testPath,
                            [kind |-> "test", run |-> call.run, item |-> 0])
             ELSE objects
        /\ call' =
             IF answer = "throws" THEN Caught(call)
             ELSE IF stored
             THEN [call EXCEPT !.result.canUpload = TRUE,
                               !.result.permissions.upload = TRUE,
                               !.path = testPath, !.pc = "fetch"]
             ELSE [Fail(call, "upload") EXCEPT !.pc = "listDir"]
  /\ UNCHANGED <<authUser, rows, ms, calls, bucketExists>>
  /\ UNCHANGED appVars

\* Step 4 with every read failing over to step 6: the delete of step 5 only
\* follows a successful read
VerifyFetch_DeleteAfterRead(url, answer) ==
  /\ call.fn = "verify" /\ call.pc = "fetch"
  /\ call' =
       IF url /\ answer = "ok"
       THEN [call EXCEPT !.result.canRead = TRUE,
                         !.result.permissions.read = TRUE, !.pc = "remove"]
       ELSE [Fail(call, "read") EXCEPT !.pc = "listDir"]
  /\ UNCHANGED <<authUser, objects, rows, ms, calls, bucketExists>>
  /\ UNCHANGED appVars

\* Step 4: getPublicUrl(testPath) and, for a non-empty URL, fetch inside its
\* own try: response.ok, another status, or a rejection that is caught here
VerifyFetch(url, answer) ==
  /\ call.fn = "verify" /\ call.pc = "fetch"
  /\ call' =
       IF url /\ answer = "ok"
       THEN [call EXCEPT !.result.canRead = TRUE,
                         !.result.permissions.read = TRUE, !.pc = "remove"]
       ELSE [Fail(call, "read") EXCEPT !.pc = "remove"]
  /\ UNCHANGED <<authUser, objects, rows, ms, calls, bucketExists>>
  /\ UNCHANGED appVars

\* Step 5: remove([testPath])
VerifyRemove(answer) ==
  /\ call.fn = "verify" /\ call.pc = "remove"
  /\ objects' = IF answer = "ok" /\ DeleteAllowed(authUser, call.path)
                THEN {o \in objects : o.path # call.path}
                ELSE objects
  /\ LET tried == [call EXCEPT !.result.deleteTried = TRUE]
     IN call' =
          IF answer = "throws" THEN Caught(tried)
          ELSE IF answer = "error"
          THEN [Fail(tried, "delete") EXCEPT !.pc = "listDir"]
          ELSE [tried EXCEPT !.result.canDelete = TRUE,
                             !.result.permissions.delete = TRUE,
                             !.pc = "listDir"]
  /\ UNCHANGED <<authUser, rows, ms, calls, bucketExists>>
  /\ UNCHANGED appVars

\* Step 6: list(userDir)
VerifyListDir(answer) ==
  /\ call.fn = "verify" /\ call.pc = "listDir"
  /\ call' = IF answer = "throws" THEN Caught(call)
             ELSE IF answer = "error"
             THEN [Fail(call, "list") EXCEPT !.pc = "getSession"]
             ELSE [call EXCEPT !.pc = "getSession"]
  /\ UNCHANGED <<authUser, objects, rows, ms, calls, bucketExists>>
  /\ UNCHANGED appVars

\* Step 7: getSession(), then return result
VerifyGetSession(answer) ==
  /\ call.fn = "verify" /\ call.pc = "getSession"
  /\ call' = IF answer = "throws" THEN Caught(call)
             ELSE IF answer = "error" \/ authUser = None
             THEN [Fail(call, "auth") EXCEPT !.pc = "returned"]
             ELSE [call EXCEPT !.pc = "returned"]
  /\ UNCHANGED <<authUser, objects, rows, ms, calls, bucketExists>>
  /\ UNCHANGED appVars

\* the diagnostics page of a project whose bucket may not have been created
InitDiagnostics ==
  /\ now = StartTime
  /\ store = {}
  /\ nextId = 1
  /\ users = [a \in Accounts |->
                [tier |-> "free", credits_remaining |-> 0,
                 daily_generations |-> 0, last_generation_date |-> StartTime]]
  /\ records = [k \in 1..MaxArtifacts |-> 0]
  /\ user = None
  /\ prevUserRef = user
  /\ transferAttemptedRef = FALSE
  /\ transferInProgressRef = FALSE
  /\ isTransferring = FALSE
  /\ transferTimer = None
  /\ runs = [r \in RunIds |-> IdleRun]
  /\ started = 0
  /\ guestSession = NoSession
  /\ replaced = NoSession
  /\ authUser = None
  /\ objects = {}
  /\ rows = {}
  /\ ms = 0
  /\ call = IdleCall
  /\ calls = 0
  /\ bucketExists \in BOOLEAN

NextDiagnostics ==
  \/ \E u \in Identities \cup {None} : SignIn(u)
  \/ MigrationApplied
  \/ \E rev \in Revisions, probe \in Answers : createStorageBucket(rev, probe)
  \/ \E answer \in Answers : CreateBucket(answer)
  \/ \E u \in Identities : verifyStorageBucket(u)
  \/ \E answer \in Answers : VerifyListBuckets(answer)
  \/ \E answer \in Answers : VerifyList(answer)
  \/ \E answer \in Answers : VerifyUpload(answer)
  \/ \E url \in BOOLEAN, answer \in Answers : VerifyFetch(url, answer)
  \/ \E answer \in Answers : VerifyRemove(answer)
  \/ \E answer \in Answers : VerifyListDir(answer)
  \/ \E answer \in Answers : VerifyGetSession(answer)
  \/ CallReturn

SpecDiagnostics == InitDiagnostics /\ [][NextDiagnostics]_vars

TypeOK ==
  /\ now \in StartTime..(StartTime + MaxTime)
  /\ nextId \in 1..(MaxArtifacts + 1)
  /\ user \in Accounts \cup {None}
  /\ transferTimer \in Accounts \cup {None}

\* ------------------------------------------------------------------ claims
InFlight ==
  Cardinality({r \in RunIds : runs[r].tab = 1})
  + (IF transferTimer # None THEN 1 ELSE 0)

\* the quota check of a run answered, and the answer does not cover the
\* images the run enumerated
GateDenied(rec) ==
  /\ Len(rec.images) > 0
  /\ rec.quotaReads > 0
  /\ (~rec.creditInfo.canGenerate \/ rec.creditInfo.available < Len(rec.images))

GatePassed(rec) ==
  /\ Len(rec.images) > 0
  /\ rec.quotaReads > 0
  /\ rec.creditInfo.canGenerate
  /\ rec.creditInfo.available >= Len(rec.images)

\* C1: a run that found N > 0 live images and whose quota check answered
\* canGenerate = false or available < N returns at once with
\* insufficientCredits = true, creditsNeeded = N and creditsAvailable =
\* available; it has made no upload, no insert and no deduction, has removed
\* nothing, and the store still holds the N images.
C1_AllOrNothingGate ==
  \A r \in RunIds :
    GateDenied(runs[r]) =>
      /\ runs[r].pc = "returned"
      /\ runs[r].result.insufficientCredits
      /\ runs[r].result.creditsNeeded = Len(runs[r].images)
      /\ runs[r].result.creditsAvailable = runs[r].creditInfo.available
      /\ runs[r].result.transferredCount = 0
      /\ runs[r].uploads = 0 /\ runs[r].inserts = 0 /\ runs[r].deducts = 0
      /\ runs[r].removed = 0
      /\ \A k \in 1..Len(runs[r].images) : runs[r].images[k] \in store

\* a run is turned away although the account has credits, only fewer than
\* the images it found
C1_Witness ==
  \E r \in RunIds :
    /\ runs[r].pc = "returned"
    /\ GateDenied(runs[r])
    /\ runs[r].creditInfo.canGenerate
    /\ runs[r].result.insufficientCredits

\* C2: no staged image ever has more than one row in logo_generations.
C2_ExactlyOnce == \A k \in 1..MaxArtifacts : records[k] <= 1

\* C3: at most one run of the detector is in flight (scheduled or executing)
\* in every reachable state.
C3_AtMostOneInFlight == InFlight <= 1

\* C4: while a callback of the detector is executing, transferInProgressRef
\* goes from true to false only in a step in which such a callback ends.
C4_GuardReleasedByRunOnly ==
  [][(/\ transferInProgressRef
      /\ ~transferInProgressRef'
      /\ \E r \in RunIds : runs[r].tab = 1)
     => \E r \in RunIds : runs[r].tab = 1 /\ runs'[r].tab # 1]_vars

\* C5: a run that passed the gate over N images returns with the account's
\* quota reduced by exactly transferredCount units, and transferredCount <= N.
C5_QuotaConservation ==
  \A r \in RunIds :
    (runs[r].pc = "returned" /\ GatePassed(runs[r])) =>
      /\ runs[r].deducted = runs[r].result.transferredCount
      /\ runs[r].result.transferredCount <= Len(runs[r].images)

\* C6: credits_remaining is never negative.
C6_AllowanceNonNegative == \A a \in Accounts : users[a].credits_remaining >= 0

\* C7: a trigger the detector accepted and has not yet finished with is still
\* scheduled or is executing, so that it results in a run.
C7_TriggerResultsInRun ==
  transferInProgressRef =>
    (transferTimer # None \/ \E r \in RunIds : runs[r].tab = 1)

\* C8: a step that re-observes the same authenticated identity never
\* schedules a run.
C8_NoRefireOnSameIdentity ==
  [][(user # None /\ user' = user)
     => ~(transferTimer = None /\ transferTimer' # None)]_vars

\* the detector fired, its callback is over, and the identity was observed
\* again without a new run
C8_Witness ==
  /\ user # None
  /\ transferAttemptedRef
  /\ prevUserRef = user
  /\ started > 0
  /\ InFlight = 0

\* C9: whenever the identity goes from none to authenticated, also after an
\* earlier login has fired the detector, the detector fires: it schedules a run
\* for the new identity and sets its one-shot memory.
C9_ResetRule ==
  [][(user = None /\ user' # None)
     => (transferTimer' = user' /\ transferAttemptedRef')]_vars

\* the detector has fired again after a callback of an earlier firing started
C9_Witness ==
  /\ started > 0
  /\ transferTimer # None
  /\ transferAttemptedRef

\* C10: a run of transferTempImagesToUser that finds no live image returns at
\* once with success = true, transferredCount = 0 and failedCount = 0, and has
\* read no quota, uploaded nothing, inserted nothing and deducted nothing.
C10_EmptyRunIsIdempotent ==
  \A r \in RunIds :
    (runs[r].called /\ Len(runs[r].images) = 0) =>
      /\ runs[r].pc = "returned"
      /\ runs[r].result = [EmptyResult EXCEPT !.success = TRUE]
      /\ runs[r].quotaReads = 0
      /\ runs[r].uploads = 0 /\ runs[r].inserts = 0 /\ runs[r].deducts = 0
      /\ runs[r].removed = 0

\* transferTempImagesToUser was called and the store held no live image
C10_Witness ==
  \E r \in RunIds :
    /\ runs[r].pc = "returned"
    /\ runs[r].called
    /\ Len(runs[r].images) = 0
    /\ LiveImages(store, now) = <<>>
    /\ runs[r].result.success

\* the loop of run rec is over
LoopDone(rec) ==
  rec.i > 0 /\ rec.pc \in {"deduct", "deductWrite", "returned"}

\* the errors of rec that name an image
ItemErrors(rec) ==
  {j \in 1..Len(rec.result.errors) : rec.result.errors[j].key # NoKey}

\* C11: an upload failure does not abort the batch: when the loop is over
\* every enumerated image has been attempted, and every failure is counted in
\* failedCount with its reason in errors; a returned run over BatchSize images
\* whose only error is the failed upload of item 2 has transferredCount =
\* BatchSize - 1 and failedCount = 1, leaves only item 2 in the store and has
\* deducted BatchSize - 1 units.
C11_UploadFailureDoesNotAbort ==
  \A r \in RunIds :
    LET rec == runs[r]
    IN LoopDone(rec) =>
         /\ rec.i = Len(rec.images)
         /\ rec.uploads = Len(rec.images)
         /\ rec.result.failedCount = Cardinality(ItemErrors(rec))
         /\ (/\ rec.pc = "returned"
             /\ Len(rec.images) = BatchSize
             /\ rec.result.errors =
                  <<[reason |-> "upload", key |-> rec.images[2].id]>>)
            => /\ rec.result.transferredCount = BatchSize - 1
               /\ rec.result.failedCount = 1
               /\ store = {rec.images[2]}
               /\ rec.deducted = BatchSize - 1

\* the batch of BatchSize images in which only the upload of item 2 failed
C11_Witness ==
  \E r \in RunIds :
    /\ runs[r].pc = "returned"
    /\ Len(runs[r].images) = BatchSize
    /\ runs[r].result.errors =
         <<[reason |-> "upload", key |-> runs[r].images[2].id]>>
    /\ runs[r].uploads = BatchSize

\* the errors of rec with one of the given reasons
ErrorsFor(rec, reasons) ==
  {j \in 1..Len(rec.result.errors) : rec.result.errors[j].reason \in reasons}

\* C12: for every image whose insert failed after its upload, the run has
\* tried to delete the uploaded payload, has counted the image as failed, has
\* left it in the store, and goes on to the end of the batch.
C12_InsertFailureCompensated ==
  \A r \in RunIds :
    LET rec == runs[r]
        failedInserts == ErrorsFor(rec, {"insert"})
    IN /\ rec.payloadDeletes >= Cardinality(failedInserts)
       /\ rec.result.failedCount >= Cardinality(failedInserts)
       /\ \A j \in failedInserts :
            \E img \in store : img.id = rec.result.errors[j].key
       /\ LoopDone(rec) => rec.i = Len(rec.images)

\* C13: when a run returns, no image it counted as transferred is in the
\* store, and every image whose upload or insert failed still is.
C13_StoreMatchesOutcome ==
  \A r \in RunIds :
    LET rec == runs[r]
    IN rec.pc = "returned" =>
         /\ \A img \in store : img.id \notin rec.counted
         /\ \A j \in ErrorsFor(rec, {"upload", "insert"}) :
              \E img \in store : img.id = rec.result.errors[j].key

\* C14: expiry is not re-checked per item: when the loop is over, every image
\* the gate was evaluated against has been uploaded, none was skipped as
\* expired.
C14_NoExpiryRecheck ==
  \A r \in RunIds :
    LoopDone(runs[r]) =>
      /\ runs[r].uploads = Len(runs[r].images)
      /\ ErrorsFor(runs[r], {"expired"}) = {}

\* C14 as amended: the loop re-checks expiry per item: an image whose
\* expiresAt has passed when its turn comes is not uploaded and not recorded
\* but counted in failedCount; an image that has not expired is uploaded.
C14_ExpiryRecheckedPerItem ==
  [][\A r \in RunIds :
       (runs[r].pc = "item" /\ runs'[r] # runs[r])
       => LET img == runs[r].images[runs[r].i]
          IN IF now > img.expiresAt
             THEN /\ runs'[r].uploads = runs[r].uploads
                  /\ runs'[r].inserts = runs[r].inserts
                  /\ records' = records
                  /\ runs'[r].result.failedCount
                       = runs[r].result.failedCount + 1
                  /\ runs'[r].result.transferredCount
                       = runs[r].result.transferredCount
             ELSE runs'[r].uploads = runs[r].uploads + 1]_vars

\* a run that passed the gate over its images skipped one as expired
C14_Witness ==
  \E r \in RunIds :
    /\ LoopDone(runs[r])
    /\ ErrorsFor(runs[r], {"expired"}) # {}
    /\ runs[r].uploads < Len(runs[r].images)
    /\ runs[r].result.creditsNeeded = Len(runs[r].images)

\* C15: a call of getGuestImages at time now returns no image with
\* expiresAt <= now.
C15_NeverReturnsDead ==
  [][\A r \in RunIds :
       (runs[r].pc = "getGuestImages" /\ runs'[r].called)
       => \A k \in 1..Len(runs'[r].images) :
            runs'[r].images[k].expiresAt > now]_vars

\* C16: a call of getGuestImages removes from the store every image that is
\* already expired and keeps it out of the result, leaves every live image in
\* the store, and adds nothing; an image queried one hour after its 2 hour
\* TTL ran out is in neither the result nor the store afterwards.
C16_LazyEviction ==
  [][\A r \in RunIds :
       (runs[r].pc \in {"getTempImages", "getGuestImages"}
        /\ runs'[r] # runs[r])
       => /\ store' \subseteq store
          /\ \A img \in store :
               IF now > img.expiresAt THEN img \notin store'
                                      ELSE img \in store'
          /\ runs'[r].called =>
               {runs'[r].images[k] : k \in 1..Len(runs'[r].images)}
                 = {img \in store : now <= img.expiresAt}
          /\ \A img \in store :
               now = img.createdAt + TTL + 1 =>
                 /\ img \notin store'
                 /\ \A k \in 1..Len(runs'[r].images) :
                      runs'[r].images[k] # img]_vars

\* the only callback so far saw a live image in getTempImages, and its call of
\* getGuestImages found that image expired and removed it
C16_Witness ==
  \E r \in RunIds :
    /\ started = 1
    /\ runs[r].called
    /\ runs[r].images = <<>>
    /\ nextId > 1
    /\ store = {}
    /\ now >= StartTime + TTL + 1

\* C17: every stored image has expiresAt = createdAt + TTL, and no step
\* changes createdAt or expiresAt of an image that stays in the store.
C17_FixedTTL ==
  [][/\ \A img \in store' : img.expiresAt = img.createdAt + TTL
     /\ \A img \in store' :
          (\E old \in store : old.id = img.id) => img \in store]_vars

\* an image stored after the clock moved is still in the store, later on,
\* while a callback works on the store
C17_Witness ==
  \E img \in store :
    /\ img.createdAt > StartTime
    /\ now > img.createdAt
    /\ \E r \in RunIds : runs[r].called

\* C18: in one run deductUserCredits is called at most once, only when the
\* loop is over and transferredCount > 0, never while items are processed, and
\* what it takes from the quota equals transferredCount.
C18_DeductOncePerBatch ==
  \A r \in RunIds :
    LET rec == runs[r]
    IN /\ rec.deducts <= 1
       /\ (rec.pc \in {"deduct", "deductWrite"} \/ rec.deducts > 0) =>
            /\ rec.i > 0
            /\ rec.i = Len(rec.images)
            /\ rec.result.transferredCount > 0
       /\ rec.pc \in {"item", "insert", "del"} => rec.deducts = 0
       /\ rec.deducts = 1 => rec.deducted = rec.result.transferredCount

\* a batch of more than one transferred image was deducted in one call
C18_Witness ==
  \E r \in RunIds :
    /\ runs[r].pc = "returned"
    /\ runs[r].deducts = 1
    /\ runs[r].result.transferredCount > 1
    /\ runs[r].deducted = runs[r].result.transferredCount

\* C19: every result transferTempImagesToUser returns without
\* insufficientCredits has success = (transferredCount > 0 or failedCount = 0).
C19_SuccessFlag ==
  \A r \in RunIds :
    (runs[r].pc = "returned" /\ ~runs[r].result.insufficientCredits) =>
      (runs[r].result.success
         <=> (runs[r].result.transferredCount > 0
              \/ runs[r].result.failedCount = 0))

\* C19 as amended: a result returned without insufficientCredits has
\* success = (transferredCount > 0 or failedCount = 0), except the result of
\* a failed getSession, which has success = false and both counts 0.
C19_SuccessFlagAfterLoop ==
  \A r \in RunIds :
    (runs[r].pc = "returned" /\ ~runs[r].result.insufficientCredits) =>
      IF ErrorsFor(runs[r], {"auth"}) # {}
      THEN /\ ~runs[r].result.success
           /\ runs[r].result.transferredCount = 0
           /\ runs[r].result.failedCount = 0
      ELSE runs[r].result.success
             <=> (runs[r].result.transferredCount > 0
                  \/ runs[r].result.failedCount = 0)

\* a partly failed batch is reported as a success
C19_Witness ==
  \E r \in RunIds :
    /\ runs[r].pc = "returned"
    /\ runs[r].result.transferredCount > 0
    /\ runs[r].result.failedCount > 0
    /\ runs[r].result.success

\* C20: what checkUserCredits answers for a row it could read: for pro,
\* available = credits_remaining and canGenerate iff credits_remaining > 0;
\* for free, consumedToday = daily_generations if the date of
\* last_generation_date is today's and 0 otherwise, available =
\* max(0, 3 - consumedToday) and canGenerate iff available > 0.
C20_QuotaFunction ==
  [][\A r \in RunIds :
       (runs[r].pc = "checkUserCredits"
        /\ runs'[r].quotaReads = runs[r].quotaReads + 1)
       => LET row == users[runs[r].userId]
              info == runs'[r].creditInfo
              consumedToday ==
                IF row.last_generation_date \div 24 = now \div 24
                THEN row.daily_generations ELSE 0
          IN IF row.tier = "pro"
             THEN /\ info.available = row.credits_remaining
                  /\ info.canGenerate <=> row.credits_remaining > 0
             ELSE /\ info.available =
                       (IF 3 - consumedToday > 0 THEN 3 - consumedToday ELSE 0)
                  /\ info.canGenerate <=> info.available > 0]_vars

\* a free account that used up its allowance on an earlier day was answered
\* with the full allowance
C20_Witness ==
  \E r \in RunIds :
    LET row == users[runs[r].userId]
    IN /\ runs[r].quotaReads > 0
       /\ runs[r].deducts = 0
       /\ runs[r].pc \in {"getSession", "item", "insert", "del", "deduct"}
       /\ row.tier = "free"
       /\ row.daily_generations = DailyCap
       /\ DatePart(row.last_generation_date) # DatePart(now)
       /\ runs[r].creditInfo.available = DailyCap

\* C21: when the users row cannot be read, checkUserCredits answers
\* available = 0 and canGenerate = false, and the run, which had live images,
\* returns a result at once without any upload, insert or deduction.
C21_FailClosed ==
  \A r \in RunIds :
    ~runs[r].readOk =>
      /\ runs[r].creditInfo.available = 0
      /\ ~runs[r].creditInfo.canGenerate
      /\ Len(runs[r].images) > 0
      /\ runs[r].pc = "returned"
      /\ runs[r].result.transferredCount = 0
      /\ runs[r].uploads = 0 /\ runs[r].inserts = 0 /\ runs[r].deducts = 0
      /\ runs[r].counted = {}

\* the read failed for an account whose credits covered the images
C21_Witness ==
  \E r \in RunIds :
    /\ ~runs[r].readOk
    /\ runs[r].pc = "returned"
    /\ users[runs[r].userId].tier = "pro"
    /\ users[runs[r].userId].credits_remaining >= Len(runs[r].images)

\* C22: insufficientCredits is true only when the users row was read and the
\* quota was below the number of live images; a read failure is not reported
\* as insufficient credits.
C22_ReadFailureDistinguished ==
  \A r \in RunIds :
    runs[r].result.insufficientCredits =>
      /\ runs[r].readOk
      /\ runs[r].creditInfo.available < Len(runs[r].images)

\* C23: the free-tier write of deductUserCredits sets daily_generations to the
\* old value + count when last_generation_date is of today and to count
\* otherwise, and sets last_generation_date to today; a run over 2 images
\* without a failure, for a free account that has consumed nothing today,
\* returns transferredCount = 2 and leaves daily_generations = 2.
C23_FreeDeductionRule ==
  [][\A r \in RunIds :
       (runs[r].pc = "deductWrite" /\ runs'[r].deducts = runs[r].deducts + 1)
       => LET a == runs[r].userId
              count == runs[r].result.transferredCount
              sameDay == DatePart(users[a].last_generation_date) = DatePart(now)
          IN /\ users'[a].daily_generations =
                  (IF sameDay THEN users[a].daily_generations + count
                   ELSE count)
             /\ DatePart(users'[a].last_generation_date) = DatePart(now)
             /\ (/\ Len(runs[r].images) = 2
                 /\ runs[r].result.failedCount = 0
                 /\ (sameDay => users[a].daily_generations = 0))
                => /\ runs'[r].pc = "returned"
                   /\ runs'[r].result.transferredCount = 2
                   /\ runs'[r].result.failedCount = 0
                   /\ users'[a].daily_generations = 2]_vars

\* a free account that had used one generation today has paid for a batch
C23_Witness ==
  \E r \in RunIds :
    /\ runs[r].pc = "returned"
    /\ ~runs[r].creditInfo.isProUser
    /\ runs[r].deducts = 1
    /\ runs[r].creditInfo.available = DailyCap - 1
    /\ users[runs[r].userId].daily_generations
         = 1 + runs[r].result.transferredCount

\* C24: a free-tier deduction that was written has raised daily_generations
\* by its count, whatever another run for the same account did between its
\* read and its write.
C24_NoLostUpdate ==
  \A r \in RunIds :
    (runs[r].pc = "returned" /\ ~runs[r].creditInfo.isProUser
     /\ runs[r].deducts = 1)
    => runs[r].deducted = runs[r].result.transferredCount

\* C25: every fault a run met is recorded in the errors of the result it
\* returns: a store that could not be read and a users row that could not be
\* read as much as the faults of the loop and of the deduction.
C25_FaultsRecorded ==
  \A r \in RunIds :
    runs[r].pc = "returned" =>
      /\ ~runs[r].keysOk => Len(runs[r].result.errors) > 0
      /\ ~runs[r].readOk => Len(runs[r].result.errors) > 0
      /\ runs[r].result.failedCount <= Len(runs[r].result.errors)

\* C29: while a run is in its loop at item i, every item before i is settled
\* (transferred, with its removal from the store finished or failed, or
\* failed), no item after i has been touched, and no more uploads were
\* started than items reached.
C29_SequentialInOrder ==
  \A r \in RunIds :
    runs[r].pc \in {"item", "insert", "del"} =>
      LET rec == runs[r]
          key(k) == rec.images[k].id
          errs(k) == {j \in 1..Len(rec.result.errors) :
                        rec.result.errors[j].key = key(k)}
          removalEnded(k) ==
            \/ \A img \in store : img.id # key(k)
            \/ \E j \in errs(k) : rec.result.errors[j].reason = "processing"
      IN /\ rec.i \in 1..Len(rec.images)
         /\ \A k \in 1..Len(rec.images) :
              /\ k < rec.i =>
                   /\ key(k) \in rec.counted \/ errs(k) # {}
                   /\ key(k) \in rec.counted => removalEnded(k)
              /\ k > rec.i => key(k) \notin rec.counted /\ errs(k) = {}
         /\ errs(rec.i) = {}
         /\ key(rec.i) \in rec.counted <=> rec.pc = "del"
         /\ rec.uploads <= (IF rec.pc = "item" THEN rec.i - 1 ELSE rec.i)
         /\ rec.inserts <= (IF rec.pc = "del" THEN rec.i ELSE rec.i - 1)

\* the second upload is about to start; the first image was transferred and
\* is out of the store
C29_Witness ==
  \E r \in RunIds :
    /\ runs[r].pc = "item" /\ runs[r].i = 2
    /\ runs[r].images[1].id \in runs[r].counted
    /\ \A img \in store : img.id # runs[r].images[1].id
    /\ runs[r].uploads = 1

\* C26: a staging step leaves a persisted session whose expiresAt is after
\* now as it is, and otherwise persists, in place of what was there, a
\* session created now that expires 24 hours from now, under an id the
\* replaced session did not have.
C26_SessionKeptOrMinted ==
  [][nextId' = nextId + 1 =>
       IF guestSession.kind = "session" /\ guestSession.expiresAt > now
       THEN guestSession' = guestSession /\ replaced' = replaced
       ELSE /\ guestSession'.kind = "session"
            /\ guestSession'.createdAt = now
            /\ guestSession'.expiresAt = now + 24
            /\ replaced' = guestSession
            /\ guestSession.kind = "session"
                 => guestSession'.sessionId # guestSession.sessionId]_vars

\* an expired session was replaced by the one minted at the staging that
\* found it expired
C26_Witness ==
  /\ replaced.kind = "session"
  /\ replaced.expiresAt <= guestSession.createdAt
  /\ guestSession.kind = "session"
  /\ guestSession.expiresAt = guestSession.createdAt + 24
  /\ guestSession.sessionId # replaced.sessionId
  /\ store # {}

C28_NeverOverwrites ==
  [][nextId' = nextId + 1 =>
       \E img \in store' : \A old \in store : old.id # img.id]_vars

\* C30: a step that changes the persisted session leaves every live image in
\* the store as it was, and a run lists and goes on to transfer the live
\* images of the store whatever is persisted as the session.
C30_ImagesIndependentOfSession ==
  [][/\ guestSession' # guestSession =>
          \A img \in store : img.expiresAt >= now => img \in store'
     /\ \A r \in RunIds :
          LET live == {img \in store : img.expiresAt >= now}
          IN /\ (runs[r].pc = "getTempImages" /\ runs'[r] # runs[r]
                 /\ live # {})
                => runs'[r].pc = "getGuestImages"
             /\ (runs[r].pc = "getGuestImages" /\ runs'[r] # runs[r])
                => /\ {runs'[r].images[k] : k \in 1..Len(runs'[r].images)}
                        = live
                   /\ live # {} => runs'[r].pc = "checkUserCredits"]_vars

\* a run transferred an image while no valid session was persisted
C30_Witness ==
  \E r \in RunIds :
    /\ runs[r].pc = "returned"
    /\ runs[r].result.transferredCount > 0
    /\ ~(guestSession.kind = "session" /\ now < guestSession.expiresAt)

\* C32: while the user is authenticated and transferInProgressRef or
\* isTransferring is set, the timer is still pending or the callback of this
\* tab is executing: only these set the two back to false for a user who
\* stays authenticated.
C32_FlagsReleasable ==
  (user # None /\ (transferInProgressRef \/ isTransferring))
  => (transferTimer # None \/ \E r \in RunIds : runs[r].tab = 1)

\* C33: a run that passed the gate over N images and went through its loop
\* has counted every image once: transferredCount + failedCount = N, and no
\* image is both counted as transferred and named by an error.
C33_CountedExactlyOnce ==
  \A r \in RunIds :
    (GatePassed(runs[r]) /\ LoopDone(runs[r])) =>
      /\ runs[r].result.transferredCount + runs[r].result.failedCount
           = Len(runs[r].images)
      /\ \A j \in ItemErrors(runs[r]) :
           runs[r].result.errors[j].key \notin runs[r].counted

C31_InsertOnlyOwnFolder ==
  [][\A o \in objects' \ objects :
       o.payload.kind = "raw" =>
         o.path.root = "logos" /\ o.path.owner = authUser]_vars

\* C34: the images of one run are uploaded to paths that differ from one
\* another, and every row the run inserted references an object that holds
\* the image of that row.
C34_DistinctPaths ==
  call.fn = "transfer" =>
    /\ \A j, k \in 1..Len(call.written) :
         j # k => call.written[j] # call.written[k]
    /\ \A row \in rows :
         row.payload.run = call.run =>
           \E o \in objects : o.path = row.path /\ o.payload = row.payload

\* C35: a step of a transfer for account U that writes an object or a row is
\* taken while U is the signed-in user.
C35_WritesUnderOwnSession ==
  [][(call.fn = "transfer" /\ call' # call
      /\ (objects' # objects \/ rows' # rows))
     => authUser = call.userId]_vars

\* C38: handleSaveGeneratedLogo returns, and returns success = true only
\* after both its upload and its insert succeeded; after an upload whose
\* insert failed it has called remove for the uploaded file and returns
\* success = false whatever remove answered; it uploads only after
\* getSession() returned a session of the user of its userId argument.
C38_SaveLogoContract ==
  call.fn = "save" =>
    /\ call.pc \in {"upload", "insert", "cleanup", "returned"}
    /\ call.success => call.pc = "returned" /\ call.uploaded /\ call.inserted
    /\ (call.pc = "returned" /\ call.uploaded /\ ~call.inserted)
         => call.removeTried /\ ~call.success
    /\ call.uploaded => call.sessionUser = call.userId
    /\ call.removeTried => call.uploaded /\ ~call.inserted

\* the insert failed and so did the removal: the file is still in the bucket
\* and the call returned success = false
C38_Witness ==
  /\ call.fn = "save" /\ call.pc = "returned"
  /\ call.uploaded /\ ~call.inserted /\ call.removeTried /\ ~call.success
  /\ HasObject(objects, call.path)

\* C36: the daily_generations of a free account that count for today are at
\* most the daily cap.
C36_DailyCapRespected ==
  \A a \in Accounts :
    (users[a].tier = "free"
     /\ DatePart(users[a].last_generation_date) = DatePart(now))
    => users[a].daily_generations <= DailyCap

\* C39: createStorageBucket creates the bucket only if it is absent, and
\* whenever the bucket exists at the moment the call returns, the call returns
\* success = true: also when the bucket existed, the probe did not find it and
\* createBucket answered "already exists".
C39_SuccessWhenBucketExists ==
  [][(call'.fn = "create" /\ call'.pc = "returned" /\ call.pc # "returned")
       => /\ bucketExists' => call'.success
          /\ bucketExists => bucketExists']_vars

\* C40: verifyStorageBucket always ends by returning its result, and in every
\* result it builds canRead implies canUpload, canDelete implies canUpload,
\* permissions.upload, .read and .delete equal canUpload, canRead and
\* canDelete, and once the test upload succeeded and the read test is over the
\* delete of the test file is attempted, whatever the read test found.
C40_VerificationConsistent ==
  call.fn = "verify" =>
    LET result == call.result
    IN /\ call.pc \in {"listBuckets", "list", "upload", "fetch", "remove",
                      "listDir", "getSession", "returned"}
       /\ result.canRead => result.canUpload
       /\ result.canDelete => result.canUpload
       /\ result.permissions.upload = result.canUpload
       /\ result.permissions.read = result.canRead
       /\ result.permissions.delete = result.canDelete
       /\ result.deleteTried => result.canUpload
       /\ (result.canUpload /\ call.pc \in {"listDir", "getSession", "returned"})
            => result.deleteTried

\* a verification that uploaded the test file, could not read it back and has
\* deleted it
C40_Witness ==
  /\ call.fn = "verify" /\ call.pc = "returned"
  /\ call.result.canUpload /\ ~call.result.canRead
  /\ call.result.deleteTried /\ call.result.canDelete
  /\ "read" \in call.result.errors

====
